---- MODULE Spec2Model ----
(***************************************************************************)
(* Thoth-Oracle: the opportunity-detection and execution pipeline.         *)
(*                                                                         *)
(*   SpecDirect  ArbitrageTrader (examples/live_arbitrage_test.py): one    *)
(*               monitoring cycle fetches quotes and runs the direct       *)
(*               detector, check_direct_arbitrage.                         *)
(*   Spec        the executing agents, SpotTradingAgent and                *)
(*               FlashLoanTradingAgent, polling the opportunity log, with  *)
(*               XRPLAMMAgent.execute_trade_with_retry below them.         *)
(*   SpecTri     ArbitrageTrader's triangular detector,                    *)
(*               check_triangular_arbitrage.                               *)
(*   SpecRisk    RiskManagementAgent under calls of assess_trade_risk and  *)
(*               update_position.                                          *)
(*   SpecLedger  RiskManagementAgent.update_position under concurrent      *)
(*               callers, over several days.                               *)
(*   SpecSpot    SpotTradingAgent alone over the log, a call of            *)
(*               execute_trade_with_retry attempt by attempt;              *)
(*               SpecSpotFair adds that a running call takes its steps.    *)
(*   SpecMonitor ArbitrageTrader.monitor_opportunities, one lookup at a    *)
(*               time, then the direct and the triangular detector.        *)
(*                                                                         *)
(* Decimal values are exact rationals <<n, d>>, d > 0, in lowest terms.    *)
(***************************************************************************)
EXTENDS Integers, Sequences, FiniteSets, TLC

VARIABLES
    \* ---- ArbitrageTrader (examples/live_arbitrage_test.py)
    det_pc,          \* "idle" | "fetched": position in the monitoring cycle
    rates_by_pair,   \* pair_key -> list of [issuer, rate, optimal_size]
    found,           \* opportunities logged by the latest detector run
    opportunities,   \* self.opportunities, append-only
    \* ---- the opportunity log and the clock
    now,             \* wall clock, seconds
    oppLog,          \* lines of logs/arbitrage_opportunities.log
    \* ---- SpotTradingAgent and its XRPLAMMAgent
    spot_pc,         \* "poll" | "executing" | "sleeping"
    spot_opp,        \* index in oppLog of the opportunity being executed
    spot_age,        \* age in seconds of that opportunity when chosen
    amm_attempts,    \* attempts of the running execute_trade_with_retry
    amm_submitted,   \* the running call has submitted a payment
    last_error,      \* last_error of the running execute_trade_with_retry
    amm_payments,    \* payments the running call has submitted
    amm_result,      \* <<result>> of the call that returned in this pass
    total_trades,
    successful_trades,
    failed_trades,
    spot_executions, \* per log index: execute_trade calls made for it
    spot_submitted,  \* per log index: calls that reached payment submission
    \* ---- FlashLoanTradingAgent
    flash_pc,        \* "poll" | "sleeping"
    loans_executed,
    flash_attempts,  \* per log index: execute_flash_loan_trade calls
    \* ---- RiskManagementAgent
    trade_history,   \* update_position records
    approvals,       \* opportunities assess_trade_risk has allowed
    daily_pnl,       \* self.daily_pnl
    assessments,     \* calls of assess_trade_risk made so far, with results
    upd_pc,          \* per caller of update_position: "idle"|"called"|"done"
    upd_args,        \* per caller: the arguments of its call
    hours,           \* wall clock of the ledger, hours since construction
    \* ---- ArbitrageTrader, triangular detector
    tri_pc,          \* "idle" | "fetched"
    all_rates,       \* "pair@exchange" -> [rate, size]
    tri_found,       \* opportunities logged by the latest triangular run
    \* ---- ArbitrageTrader.monitor_opportunities, step by step
    mon_pc,          \* "idle"|"fetching"|"fetched"|"direct_done"|"sleeping"|
                     \* "error_sleep"
    lookups,         \* what get_pool_rates returned in this cycle, in the
                     \* order of self.pairs
    last_cycle,      \* what it returned in the cycle before
    evaluated        \* the detectors that ran to their end in this cycle

detVars == <<det_pc, rates_by_pair, found, opportunities>>
logVars == <<now, oppLog>>
spotVars == <<spot_pc, spot_opp, spot_age, amm_attempts, amm_submitted,
              last_error, amm_payments, amm_result,
              total_trades, successful_trades, failed_trades,
              spot_executions, spot_submitted>>
flashVars == <<flash_pc, loans_executed, flash_attempts>>
riskVars == <<trade_history, approvals, daily_pnl, assessments, upd_pc,
              upd_args, hours>>
triVars == <<tri_pc, all_rates, tri_found>>
monVars == <<mon_pc, lookups, last_cycle, evaluated>>
vars == <<detVars, logVars, spotVars, flashVars, riskVars, triVars, monVars>>

(***************************************************************************)
(* Decimal arithmetic: exact rationals in lowest terms.                    *)
(***************************************************************************)
Abs(x) == IF x < 0 THEN -x ELSE x

RECURSIVE GCD(_, _)
GCD(a, b) == IF b = 0 THEN a ELSE GCD(b, a % b)

Rat(n, d) ==
    LET g == GCD(Abs(n), d)
    IN  <<(IF n < 0 THEN -(Abs(n) \div g) ELSE n \div g), d \div g>>

Dec(n) == <<n, 1>>
\* Sums and comparisons are taken over the least common denominator and
\* products are reduced crosswise first, so that intermediate integers stay
\* as small as the results allow.
RAdd(a, b) ==
    LET g == GCD(a[2], b[2])
    IN  Rat(a[1] * (b[2] \div g) + b[1] * (a[2] \div g), (a[2] \div g) * b[2])
RSub(a, b) ==
    LET g == GCD(a[2], b[2])
    IN  Rat(a[1] * (b[2] \div g) - b[1] * (a[2] \div g), (a[2] \div g) * b[2])
RMul(a, b) ==
    LET x == Rat(a[1], b[2])
        y == Rat(b[1], a[2])
    IN  <<x[1] * y[1], x[2] * y[2]>>
RDiv(a, b) ==
    IF b[1] < 0 THEN RMul(a, <<-b[2], -b[1]>>)
                ELSE RMul(a, <<b[2], b[1]>>)
RLt(a, b) ==
    LET g == GCD(a[2], b[2])
    IN  a[1] * (b[2] \div g) < b[1] * (a[2] \div g)
RLe(a, b) ==
    LET g == GCD(a[2], b[2])
    IN  a[1] * (b[2] \div g) <= b[1] * (a[2] \div g)
RMin(a, b) == IF RLt(b, a) THEN b ELSE a
RMax(a, b) == IF RLt(a, b) THEN b ELSE a

(***************************************************************************)
(* ArbitrageTrader: venues, pairs and quotes.                              *)
(***************************************************************************)
\* The issuers of the model: the first entries of ISSUERS, in its order.
ISSUERS ==
    << <<"Bitstamp", "rvYAfWj5gh67oV6fW32ZzP3Aw4Eubs59B">>,
       <<"Gatehub", "rhub8VRN55s94qWKDv6jmDy1pUykJzF3wq">>,
       <<"GateHub_Five", "rchGBxcD1A1C2tdxF6papQYZ8kjRKMYcL">> >>

\* The currencies of the model: a part of each list of CURRENCIES.
CURRENCIES ==
    [FIAT |-> <<"USD">>, CRYPTO |-> <<"XRP">>, STABLECOIN |-> <<>>]

SeqToSet(s) == {s[i] : i \in 1..Len(s)}

\* _generate_trading_pairs: per issuer, every crypto base against every fiat,
\* every other crypto and every stablecoin.
PairsOfBase(base, addr) ==
    {[base |-> base, quote |-> q, issuer |-> addr] :
        q \in SeqToSet(CURRENCIES.FIAT)
              \cup (SeqToSet(CURRENCIES.CRYPTO) \ {base})
              \cup SeqToSet(CURRENCIES.STABLECOIN)}

GenerateTradingPairs ==
    UNION {PairsOfBase(base, ISSUERS[i][2]) :
              base \in SeqToSet(CURRENCIES.CRYPTO), i \in 1..Len(ISSUERS)}

PairKey(pair) == <<pair.base, pair.quote>>
PairKeys == {PairKey(p) : p \in GenerateTradingPairs}

\* Mutant: the generator's filter on the address is lost.
ExchangeNameUnfiltered(addr) == ISSUERS[1][1]

\* next(name for name, addr in ISSUERS.items() if addr == issuer)
ExchangeName(addr) ==
    LET i == CHOOSE i \in 1..Len(ISSUERS) :
                 /\ ISSUERS[i][2] = addr
                 /\ \A j \in 1..(i - 1) : ISSUERS[j][2] # addr
    IN  ISSUERS[i][1]

\* XRPLAMMAgent.calculate_optimal_size
CalculateOptimalSize(rate) == Dec(1000)

\* XRPLAMMAgent.get_pool_rates on a book whose best offer has quality `q[1]`;
\* `q` is <<>> when the book has no offers or the request failed, and the
\* result is then None (<<>>), which the caller drops.
GetPoolRates(q) ==
    IF q = <<>> THEN <<>>
    ELSE <<[rate |-> q[1], optimal_size |-> CalculateOptimalSize(q[1])]>>

\* The quotes of one pair key, in the order of self.pairs (issuer-major):
\* `res[i]` is the lookup result at issuer i, <<>> when there is none.
QuoteList(res) ==
    LET all == [i \in 1..Len(ISSUERS) |->
                   [issuer |-> ISSUERS[i][2], rates |-> res[i]]]
        kept == SelectSeq(all, LAMBDA e : e.rates # <<>>)
    IN  [i \in 1..Len(kept) |->
            [issuer |-> kept[i].issuer, rates |-> kept[i].rates[1]]]

\* rates_by_pair as monitor_opportunities builds it: a key is present only
\* if at least one of its lookups returned rates.
BuildRatesByPair(res) ==
    LET keys == {k \in PairKeys : Len(QuoteList(res[k])) > 0}
    IN  [k \in keys |-> QuoteList(res[k])]

(***************************************************************************)
(* check_direct_arbitrage                                                  *)
(***************************************************************************)
\* float(x["rates"]["rate"]), the key of min and max. float() is strictly
\* increasing on decimals of at most 15 significant digits, which all rates
\* of the model are, so the keys compare as the decimals do.
FloatLess(a, b) == RLt(a, b)

\* min(exchange_rates, key=...): the first entry of least key.
BestBuy(exchange_rates) ==
    LET i == CHOOSE i \in 1..Len(exchange_rates) :
                 /\ \A j \in 1..Len(exchange_rates) :
                        ~FloatLess(exchange_rates[j].rates.rate,
                                   exchange_rates[i].rates.rate)
                 /\ \A j \in 1..(i - 1) :
                        FloatLess(exchange_rates[i].rates.rate,
                                  exchange_rates[j].rates.rate)
    IN  exchange_rates[i]

\* max(exchange_rates, key=...): the first entry of greatest key.
BestSell(exchange_rates) ==
    LET i == CHOOSE i \in 1..Len(exchange_rates) :
                 /\ \A j \in 1..Len(exchange_rates) :
                        ~FloatLess(exchange_rates[i].rates.rate,
                                   exchange_rates[j].rates.rate)
                 /\ \A j \in 1..(i - 1) :
                        FloatLess(exchange_rates[j].rates.rate,
                                  exchange_rates[i].rates.rate)
    IN  exchange_rates[i]

\* size = Decimal(best_buy["rates"]["optimal_size"])
TradeSize(best_buy, best_sell) == best_buy.rates.optimal_size

\* potential_profit = (sell_rate - buy_rate) * size
PotentialProfit(buy_rate, sell_rate, size) ==
    RMul(RSub(sell_rate, buy_rate), size)

\* Mutant: the percentage is taken of the sell side's cost.
ProfitPercentageOfSell(buy_rate, sell_rate, size) ==
    RMul(RDiv(RMul(RSub(sell_rate, buy_rate), size), RMul(sell_rate, size)),
         Dec(100))

\* profit_percentage = (potential_profit / (buy_rate * size)) * 100
ProfitPercentage(buy_rate, sell_rate, size) ==
    RMul(RDiv(PotentialProfit(buy_rate, sell_rate, size),
              RMul(buy_rate, size)),
         Dec(100))

\* self.min_profit_threshold = Decimal("0.0008")
MinProfitThreshold == Rat(8, 10000)

\* Mutant: the comparison with the threshold is turned round.
ThresholdMetInverted(profit_percentage) ==
    RLt(profit_percentage, MinProfitThreshold)

\* if profit_percentage > self.min_profit_threshold
ThresholdMet(profit_percentage) == RLt(MinProfitThreshold, profit_percentage)

\* The opportunity check_direct_arbitrage logs for one pair key: <<>> or a
\* one-element list.
DirectOpportunity(pair_key, exchange_rates) ==
    IF Len(exchange_rates) > 1
    THEN LET best_buy == BestBuy(exchange_rates)
             best_sell == BestSell(exchange_rates)
             buy_rate == best_buy.rates.rate
             sell_rate == best_sell.rates.rate
             size == TradeSize(best_buy, best_sell)
             profit_percentage == ProfitPercentage(buy_rate, sell_rate, size)
         IN  IF ThresholdMet(profit_percentage)
             THEN <<[type |-> "direct",
                     pair |-> pair_key,
                     buy_exchange |-> ExchangeName(best_buy.issuer),
                     sell_exchange |-> ExchangeName(best_sell.issuer),
                     buy_rate |-> buy_rate,
                     sell_rate |-> sell_rate,
                     size |-> size,
                     profit |-> PotentialProfit(buy_rate, sell_rate, size),
                     profit_percentage |-> profit_percentage]>>
             ELSE <<>>
    ELSE <<>>

\* The loop over rates_by_pair.items(): the logged opportunities, in order.
RECURSIVE DirectOpportunities(_, _)
DirectOpportunities(rbp, keys) ==
    IF keys = {} THEN <<>>
    ELSE LET k == CHOOSE k \in keys : TRUE
         IN  DirectOpportunity(k, rbp[k]) \o DirectOpportunities(rbp, keys \ {k})

(***************************************************************************)
(* Bounds and input sets.                                                  *)
(***************************************************************************)
MaxOpps == 1        \* detector runs stop once this many opportunities are logged

\* Offer qualities the ledger may report: "1", "1.0001", "1.02".
Qualities == {Rat(1, 1), Rat(10001, 10000), Rat(51, 50)}
\* Sizes of quotes handed to check_direct_arbitrage by a caller.
QuoteSizes == {Dec(300), Dec(500)}

LookupResults == {<<>>} \cup {<<q>> : q \in Qualities}
SuppliedQuotes ==
    {<<>>} \cup {<<[rate |-> q, optimal_size |-> z]>> :
                    q \in Qualities, z \in QuoteSizes}

\* Tasks that may call RiskManagementAgent.update_position.
Callers == {"t1", "t2"}

(***************************************************************************)
(* Initial state: every agent just constructed, the log empty.             *)
(***************************************************************************)
Init ==
    /\ det_pc = "idle"
    /\ rates_by_pair = <<>>
    /\ found = <<>>
    /\ opportunities = <<>>
    /\ now = 0
    /\ oppLog = <<>>
    /\ spot_pc = "poll"
    /\ spot_opp = 0
    /\ spot_age = 0
    /\ amm_attempts = 0
    /\ amm_submitted = FALSE
    /\ last_error = "None"
    /\ amm_payments = 0
    /\ amm_result = <<>>
    /\ total_trades = 0
    /\ successful_trades = 0
    /\ failed_trades = 0
    /\ spot_executions = <<>>
    /\ spot_submitted = <<>>
    /\ flash_pc = "poll"
    /\ loans_executed = 0
    /\ flash_attempts = <<>>
    /\ trade_history = <<>>
    /\ approvals = {}
    /\ daily_pnl = Dec(0)
    /\ assessments = <<>>
    /\ upd_pc = [c \in Callers |-> "idle"]
    /\ upd_args = [c \in Callers |-> <<>>]
    /\ hours = 0
    /\ tri_pc = "idle"
    /\ all_rates = <<>>
    /\ tri_found = <<>>
    /\ mon_pc = "idle"
    /\ lookups = <<>>
    /\ last_cycle = <<>>
    /\ evaluated = {}

(***************************************************************************)
(* ArbitrageTrader.monitor_opportunities, the direct detector's part.      *)
(***************************************************************************)
\* The lookups of one cycle: get_pool_rates for every pair of self.pairs,
\* grouped by pair key.
MonitorFetch ==
    /\ det_pc = "idle"
    /\ Len(opportunities) < MaxOpps
    /\ \E book \in [PairKeys -> [1..Len(ISSUERS) -> LookupResults]] :
          rates_by_pair' =
              BuildRatesByPair([k \in PairKeys |->
                  [i \in 1..Len(ISSUERS) |-> GetPoolRates(book[k][i])]])
    /\ det_pc' = "fetched"
    /\ UNCHANGED <<found, opportunities, logVars, spotVars, flashVars, riskVars, triVars, monVars>>

\* A caller hands check_direct_arbitrage quotes of its own: one quote per
\* pair and venue at most, each with its own available size.
SupplyQuotes ==
    /\ det_pc = "idle"
    /\ Len(opportunities) < MaxOpps
    /\ \E quotes \in [PairKeys -> [1..Len(ISSUERS) -> SuppliedQuotes]] :
          rates_by_pair' = BuildRatesByPair(quotes)
    /\ det_pc' = "fetched"
    /\ UNCHANGED <<found, opportunities, logVars, spotVars, flashVars, riskVars, triVars, monVars>>

\* check_direct_arbitrage(rates_by_pair) with log_opportunity for each find.
CheckDirectArbitrage ==
    /\ det_pc = "fetched"
    /\ found' = DirectOpportunities(rates_by_pair, DOMAIN rates_by_pair)
    /\ opportunities' = opportunities \o found'
    /\ det_pc' = "idle"
    /\ UNCHANGED <<rates_by_pair, logVars, spotVars, flashVars, riskVars, triVars, monVars>>

NextDirect == MonitorFetch \/ SupplyQuotes \/ CheckDirectArbitrage

SpecDirect == Init /\ [][NextDirect]_vars

(***************************************************************************)
(* The opportunity log, logs/arbitrage_opportunities.log, and the clock.   *)
(***************************************************************************)
MaxLog == 2         \* lines the log may hold
MaxExec == 2        \* executions of one log line an agent may start
MaxTime == 90       \* the clock stops here
TickSeconds == 45   \* one step of the clock

\* A line of the log: JSON with a "details" object, or text json.loads
\* rejects. `stamped` says whether details carries a timestamp.
OppLines ==
    { [json_ok |-> TRUE, stamped |-> TRUE, pair |-> <<"XRP", "USD">>,
       profit_percentage |-> Dec(10), size |-> Dec(100), profit |-> Dec(2),
       buy_price |-> Dec(99), sell_price |-> Dec(101)],
      [json_ok |-> TRUE, stamped |-> FALSE, pair |-> <<"XRP", "USD">>,
       profit_percentage |-> Dec(10), size |-> Dec(100), profit |-> Dec(2),
       buy_price |-> Dec(99), sell_price |-> Dec(101)],
      [json_ok |-> TRUE, stamped |-> TRUE, pair |-> <<"XRP", "USD">>,
       profit_percentage |-> Rat(1, 200), size |-> Dec(1000),
       profit |-> Rat(1, 20), buy_price |-> Dec(1), sell_price |-> Dec(1)],
      [json_ok |-> FALSE, stamped |-> FALSE, pair |-> <<"XRP", "USD">>,
       profit_percentage |-> Dec(0), size |-> Dec(0), profit |-> Dec(0),
       buy_price |-> Dec(1), sell_price |-> Dec(1)] }

\* The line as written at time t: the timestamp is <<>> when there is none.
Stamped(line, t) ==
    [json_ok |-> line.json_ok, pair |-> line.pair,
     profit_percentage |-> line.profit_percentage, size |-> line.size,
     profit |-> line.profit, buy_price |-> line.buy_price,
     sell_price |-> line.sell_price,
     timestamp |-> IF line.stamped THEN <<t>> ELSE <<>>]

\* The detector's side writes one more line.
LogOpportunity ==
    /\ Len(oppLog) < MaxLog
    /\ \E line \in OppLines : oppLog' = Append(oppLog, Stamped(line, now))
    /\ spot_executions' = Append(spot_executions, 0)
    /\ spot_submitted' = Append(spot_submitted, 0)
    /\ flash_attempts' = Append(flash_attempts, 0)
    /\ UNCHANGED <<now, detVars, spot_pc, spot_opp, spot_age, amm_attempts,
                   amm_submitted, last_error, amm_payments, amm_result,
                   total_trades, successful_trades, failed_trades, flash_pc, loans_executed, riskVars, triVars, monVars>>

Tick ==
    /\ now < MaxTime
    /\ now' = now + TickSeconds
    /\ UNCHANGED <<oppLog, detVars, spotVars, flashVars, riskVars, triVars, monVars>>

(***************************************************************************)
(* SpotTradingAgent                                                        *)
(***************************************************************************)
\* time_score decays to 0 over this many seconds.
StalenessWindow == 60

\* calculate_risk_score at wall-clock time t.
CalculateRiskScore(opportunity, t) ==
    LET profit_score == RMin(RDiv(opportunity.profit_percentage, Dec(10)), Dec(1))
        size_ratio == RDiv(opportunity.size, Dec(1000))
        size_score == RSub(Dec(1), RMin(size_ratio, Dec(1)))
        time_score ==
            IF opportunity.timestamp = <<>> THEN Rat(1, 2)
            ELSE RMax(Dec(0),
                      RSub(Dec(1), Rat(t - opportunity.timestamp[1],
                                       StalenessWindow)))
    IN  RAdd(RAdd(RMul(profit_score, Rat(5, 10)), RMul(size_score, Rat(3, 10))),
             RMul(time_score, Rat(2, 10)))

\* What the ledger answers to analyze_opportunity's requests.
Ledgers ==
    [fails : BOOLEAN, buy_liquidity : {Dec(0), Dec(2000)}, trust_line : BOOLEAN]

\* analyze_opportunity: <<>> for the empty analysis {} (an exception), else
\* the one analysis.
AnalyzeOpportunity(opportunity, ledger) ==
    IF ledger.fails THEN <<>>
    ELSE
    LET size == opportunity.size
        buy_liquidity == ledger.buy_liquidity
        market_impact ==
            IF RLt(Dec(0), buy_liquidity) THEN RDiv(size, buy_liquidity)
            ELSE Dec(1)
        price_change ==
            IF RLt(opportunity.buy_price, opportunity.sell_price)
            THEN RSub(opportunity.sell_price, opportunity.buy_price)
            ELSE RSub(opportunity.buy_price, opportunity.sell_price)
        avg_price ==
            RDiv(RAdd(opportunity.buy_price, opportunity.sell_price), Dec(2))
        volatility == RDiv(price_change, avg_price)
        has_trust_line ==
            IF opportunity.pair[1] # "XRP" THEN ledger.trust_line ELSE TRUE
        total ==
            RAdd(RAdd(RSub(Dec(1), market_impact), RSub(Dec(1), volatility)),
                 RAdd(IF has_trust_line THEN Rat(9, 10) ELSE Rat(3, 10),
                      IF RLt(size, buy_liquidity) THEN Rat(8, 10)
                      ELSE Rat(2, 10)))
        execution_prob == RMax(Dec(0), RMin(Dec(1), RDiv(total, Dec(4))))
    IN  <<[execution_probability |-> execution_prob,
           expected_value |-> RMul(opportunity.profit, execution_prob)]>>

\* Mutant: every readable line is taken for viable.
ViableAlways(opportunity, analysis, t) == TRUE

\* final_score >= 0.6 and expected_value > 0, for a non-empty analysis.
Viable(opportunity, analysis, t) ==
    /\ analysis # <<>>
    /\ LET final_score ==
               RAdd(RMul(CalculateRiskScore(opportunity, t), Rat(7, 10)),
                    RMul(analysis[1].execution_probability, Rat(3, 10)))
       IN  /\ RLe(Rat(6, 10), final_score)
           /\ RLt(Dec(0), analysis[1].expected_value)

\* f.readlines()[-1] exists (no IndexError) and json.loads accepts it.
LastLineReadable == oppLog # <<>> /\ oppLog[Len(oppLog)].json_ok

\* One pass of monitor_opportunities up to the call of execute_trade: read
\* the last line, analyse it, score it, and start executing it if viable.
SpotPoll ==
    /\ spot_pc = "poll"
    /\ \/ /\ ~LastLineReadable
          /\ spot_pc' = "sleeping"
          /\ UNCHANGED <<spot_opp, spot_age, spot_executions>>
       \/ /\ LastLineReadable
          /\ spot_executions[Len(oppLog)] < MaxExec
          /\ \E ledger \in Ledgers :
                LET opportunity == oppLog[Len(oppLog)]
                    analysis == AnalyzeOpportunity(opportunity, ledger)
                IN  IF Viable(opportunity, analysis, now)
                    THEN /\ spot_pc' = "executing"
                         /\ spot_opp' = Len(oppLog)
                         /\ spot_age' =
                               IF opportunity.timestamp = <<>> THEN 0
                               ELSE now - opportunity.timestamp[1]
                         /\ spot_executions' =
                               [spot_executions EXCEPT ![Len(oppLog)] = @ + 1]
                    ELSE /\ spot_pc' = "sleeping"
                         /\ UNCHANGED <<spot_opp, spot_age, spot_executions>>
    /\ UNCHANGED <<amm_attempts, amm_submitted, last_error, amm_payments,
                   amm_result, total_trades,
                   successful_trades, failed_trades, spot_submitted, detVars,
                   logVars, flashVars, riskVars, triVars, monVars>>

\* RETRY_CONFIG["max_attempts"]
MaxAttempts == 3

\* Mutant: a failed trade is counted in total_trades as well.
SpotFinishCountingFailures(success) ==
    /\ total_trades' = total_trades + 1
    /\ IF success
       THEN /\ successful_trades' = successful_trades + 1
            /\ UNCHANGED failed_trades
       ELSE /\ failed_trades' = failed_trades + 1
            /\ UNCHANGED successful_trades
    /\ spot_pc' = "sleeping"
    /\ spot_opp' = 0
    /\ spot_age' = 0
    /\ amm_attempts' = 0
    /\ amm_payments' = 0
    /\ last_error' = "None"

\* execute_trade's and monitor_opportunities' handling of the result that
\* execute_trade_with_retry returned.
SpotFinish(success) ==
    /\ IF success
       THEN /\ successful_trades' = successful_trades + 1
            /\ total_trades' = total_trades + 1
            /\ UNCHANGED failed_trades
       ELSE /\ failed_trades' = failed_trades + 1
            /\ UNCHANGED <<successful_trades, total_trades>>
    /\ spot_pc' = "sleeping"
    /\ spot_opp' = 0
    /\ spot_age' = 0
    /\ amm_attempts' = 0
    /\ amm_payments' = 0
    /\ last_error' = "None"

\* spot_submitted once the running call has submitted a payment: the first
\* payment counts the call among those that reached payment submission.
AfterSubmission ==
    IF amm_submitted THEN spot_submitted
    ELSE [spot_submitted EXCEPT ![spot_opp] = @ + 1]

\* str(ValueError(...)) kept in last_error when find_paths returns no path.
NoPathsError == "No valid payment paths found"

\* f"Error validating issuer: {e}", validate_issuer's answer to an exception
IssuerFaultError == "Error validating issuer"

\* Mutant: the final error forgets the last attempt's error.
ExhaustedErrorBare(last) == <<"Max retry attempts reached. Last error: ", "None">>

\* f"Max retry attempts reached. Last error: {last_error}"
ExhaustedError(last) == <<"Max retry attempts reached. Last error: ", last>>

\* Mutant: the loop allows one attempt more.
MayAttemptOnceMore(attempts) == attempts <= MaxAttempts

\* while attempts < RETRY_CONFIG["max_attempts"]
MayAttempt(attempts) == attempts < MaxAttempts

\* What one pass of the loop can meet at the ledger.
AttemptOutcomes ==
    {"issuer_invalid", "issuer_fault", "no_paths", "submit_fault",
     "not_validated", "validated"}

\* An attempt that failed and is followed by the delay and the next pass:
\* last_error takes `error`, and `paid` says whether a payment went out.
AttemptFailed(error, paid) ==
    /\ last_error' = error
    /\ amm_attempts' = amm_attempts + 1
    /\ IF paid
       THEN /\ spot_submitted' = AfterSubmission
            /\ amm_submitted' = TRUE
            /\ amm_payments' = amm_payments + 1
       ELSE UNCHANGED <<spot_submitted, amm_submitted, amm_payments>>
    /\ UNCHANGED <<spot_pc, spot_opp, spot_age, total_trades,
                   successful_trades, failed_trades, amm_result>>

\* One pass of execute_trade_with_retry's loop, by what the ledger does.
\*   issuer_invalid  the exchange is unknown or its account is not found:
\*                   validate_issuer returns False and the call returns.
\*   issuer_fault    the AccountInfo request raises (timeout, connection):
\*                   validate_issuer catches it and returns False, and the
\*                   call returns at once all the same.
\*   no_paths        find_paths returns [], for want of a path or because
\*                   its request raised: the ValueError is caught, the delay
\*                   is slept and the loop goes on.
\*   submit_fault    submit_and_wait raises after sending the payment:
\*                   execute_trade returns the failure; delay and next pass.
\*   not_validated   the ledger reports the payment not validated: same.
\*   validated       the ledger validates the payment: the call returns.
AmmAttempt ==
    /\ spot_pc = "executing"
    /\ MayAttempt(amm_attempts)
    /\ \E outcome \in AttemptOutcomes :
          CASE outcome = "issuer_invalid" ->
                  /\ SpotFinish(FALSE)
                  /\ amm_result' = <<[success |-> FALSE,
                                      error |-> <<"Issuer account not found">>]>>
                  /\ amm_submitted' = FALSE
                  /\ UNCHANGED spot_submitted
            [] outcome = "issuer_fault" ->
                  /\ SpotFinish(FALSE)
                  /\ amm_result' = <<[success |-> FALSE,
                                      error |-> <<IssuerFaultError>>]>>
                  /\ amm_submitted' = FALSE
                  /\ UNCHANGED spot_submitted
            [] outcome = "no_paths" -> AttemptFailed(NoPathsError, FALSE)
            [] outcome = "submit_fault" -> AttemptFailed("submit fault", TRUE)
            [] outcome = "not_validated" ->
                  AttemptFailed("Transaction not validated", TRUE)
            [] outcome = "validated" ->
                  /\ spot_submitted' = AfterSubmission
                  /\ amm_submitted' = FALSE
                  /\ amm_result' = <<[success |-> TRUE, error |-> <<>>]>>
                  /\ SpotFinish(TRUE)
    /\ UNCHANGED <<spot_executions, detVars, logVars, flashVars, riskVars, triVars, monVars>>

\* The loop ends with the attempts used up: the call returns its failure.
AmmExhausted ==
    /\ spot_pc = "executing"
    /\ ~MayAttempt(amm_attempts)
    /\ SpotFinish(FALSE)
    /\ amm_result' = <<[success |-> FALSE, error |-> ExhaustedError(last_error)]>>
    /\ amm_submitted' = FALSE
    /\ UNCHANGED <<spot_submitted, spot_executions, detVars, logVars,
                   flashVars, riskVars, triVars, monVars>>

\* asyncio.sleep(1) is over; the pass's locals are gone.
SpotWake ==
    /\ spot_pc = "sleeping"
    /\ spot_pc' = "poll"
    /\ amm_result' = <<>>
    /\ UNCHANGED <<spot_opp, spot_age, amm_attempts, amm_submitted, last_error,
                   amm_payments, total_trades, successful_trades,
                   failed_trades, spot_executions, spot_submitted, detVars,
                   logVars, flashVars, riskVars, triVars, monVars>>

(***************************************************************************)
(* FlashLoanTradingAgent                                                   *)
(***************************************************************************)
\* FLASH_LOAN_WALLET["min_profit_threshold"] = Decimal("0.008")
FlashMinProfitThreshold == Rat(8, 1000)

\* execute_flash_loan_trade: below the threshold it returns False; otherwise
\* it looks up flash_loan_agent.check_loan_availability, which FlashLoanAgent
\* does not define, and the AttributeError makes it return False.
ExecuteFlashLoanTrade(opportunity) ==
    IF RLt(opportunity.profit_percentage, FlashMinProfitThreshold)
    THEN [success |-> FALSE, reason |-> "below threshold"]
    ELSE [success |-> FALSE, reason |-> "AttributeError"]

\* One pass of monitor_opportunities: every line json.loads accepts is
\* handed to execute_flash_loan_trade; nothing suspends on the way.
FlashCycle ==
    /\ flash_pc = "poll"
    /\ \A i \in 1..Len(oppLog) : flash_attempts[i] < MaxExec
    /\ flash_attempts' =
          [i \in 1..Len(oppLog) |->
              IF oppLog[i].json_ok THEN flash_attempts[i] + 1
              ELSE flash_attempts[i]]
    /\ loans_executed' =
          loans_executed
            + Cardinality({i \in 1..Len(oppLog) :
                  oppLog[i].json_ok /\ ExecuteFlashLoanTrade(oppLog[i]).success})
    /\ flash_pc' = "sleeping"
    /\ UNCHANGED <<detVars, logVars, spotVars, riskVars, triVars, monVars>>

FlashWake ==
    /\ flash_pc = "sleeping"
    /\ flash_pc' = "poll"
    /\ UNCHANGED <<loans_executed, flash_attempts, detVars, logVars, spotVars,
                   riskVars, triVars, monVars>>

Next ==
    \/ LogOpportunity
    \/ Tick
    \/ SpotPoll
    \/ AmmAttempt
    \/ AmmExhausted
    \/ SpotWake
    \/ FlashCycle
    \/ FlashWake

Spec == Init /\ [][Next]_vars

\* The spot agent alone, with its XRPLAMMAgent.
NextSpot ==
    \/ LogOpportunity
    \/ Tick
    \/ SpotPoll
    \/ AmmAttempt
    \/ AmmExhausted
    \/ SpotWake

SpecSpot == Init /\ [][NextSpot]_vars

\* The same, with the event loop resuming execute_trade_with_retry whenever
\* its pending request or sleep is over: every ledger request of the call
\* returns or raises, and asyncio.sleep(delay) ends.
SpecSpotFair ==
    SpecSpot /\ WF_vars(AmmAttempt) /\ WF_vars(AmmExhausted)

(***************************************************************************)
(* ArbitrageTrader.check_triangular_arbitrage                              *)
(***************************************************************************)
\* Mutant: a catalog whose only cycle runs over a generated pair.
PathsOverGeneratedPair == << << <<"XRP", "USD">> >> >>

\* `paths`, the catalog of cycles, each a list of pair keys.
Paths ==
    << << <<"XRP", "BTC">>, <<"BTC", "USD">>, <<"USD", "XRP">> >>,
       << <<"XRP", "EUR">>, <<"EUR", "USD">>, <<"USD", "XRP">> >>,
       << <<"BTC", "ETH">>, <<"ETH", "USD">>, <<"USD", "BTC">> >>,
       << <<"USDT", "USD">>, <<"USD", "BTC">>, <<"BTC", "USDT">> >>,
       << <<"USDC", "USD">>, <<"USD", "ETH">>, <<"ETH", "USDC">> >>,
       << <<"XRP", "JPY">>, <<"JPY", "USD">>, <<"USD", "XRP">> >>,
       << <<"BTC", "EUR">>, <<"EUR", "ETH">>, <<"ETH", "BTC">> >>,
       << <<"ETH", "GBP">>, <<"GBP", "USD">>, <<"USD", "ETH">> >>,
       << <<"LTC", "BTC">>, <<"BTC", "USD">>, <<"USD", "LTC">> >>,
       << <<"BCH", "ETH">>, <<"ETH", "USD">>, <<"USD", "BCH">> >>,
       << <<"XLM", "XRP">>, <<"XRP", "USD">>, <<"USD", "XLM">> >>,
       << <<"XRP", "BTC">>, <<"BTC", "ETH">>, <<"ETH", "USD">>, <<"USD", "XRP">> >>,
       << <<"BTC", "ETH">>, <<"ETH", "USDT">>, <<"USDT", "USD">>, <<"USD", "BTC">> >>,
       << <<"ETH", "EUR">>, <<"EUR", "USD">>, <<"USD", "BTC">>, <<"BTC", "ETH">> >> >>

\* The cycles a caller's quotes are supplied for: the classic three-leg ones.
SuppliedPaths == {1, 2}

\* rate_key = f"{pair}@{exchange}"
RateKey(pair, exchange) == <<pair, exchange>>

\* self.max_slippage, self.min_triangular_profit and the start of a round trip
MaxSlippage == Rat(5, 1000)
MinTriangularProfit == Rat(15, 10000)
InitialSize == Dec(1000)

\* Mutant: no slippage is charged.
SlippageIgnored(current_size, size, max_slippage) == Dec(0)

\* min(self.max_slippage, current_size / rate_info["size"] * Decimal("0.001"))
Slippage(current_size, size, max_slippage) ==
    RMin(max_slippage, RMul(RDiv(current_size, size), Rat(1, 1000)))

\* The loop over the legs: current_size once every leg of `rates` is applied.
RECURSIVE SimulateTrades(_, _, _)
SimulateTrades(rates, current_size, max_slippage) ==
    IF rates = <<>> THEN current_size
    ELSE LET rate_info == Head(rates)
             slippage == Slippage(current_size, rate_info.size, max_slippage)
             effective_rate == RMul(rate_info.rate, RSub(Dec(1), slippage))
         IN  SimulateTrades(Tail(rates), RMul(current_size, effective_rate),
                            max_slippage)

\* rates: the quotes of the legs of `path` that all_rates holds at `exchange`.
PathRates(all, path, exchange) ==
    LET present == SelectSeq(path,
                       LAMBDA pair : RateKey(pair, exchange) \in DOMAIN all)
    IN  [i \in 1..Len(present) |-> all[RateKey(present[i], exchange)]]

\* The body of the two loops for one path and exchange: what gets logged,
\* <<>> when a leg has no quote or the profit is not above the threshold.
TriangularOpportunity(all, path, exchange, max_slippage) ==
    LET rates == PathRates(all, path, exchange)
    IN  IF Len(rates) # Len(path) THEN <<>>
        ELSE LET initial_size == InitialSize
                 current_size ==
                     SimulateTrades(rates, initial_size, max_slippage)
                 profit == RSub(current_size, initial_size)
                 profit_percentage ==
                     RMul(RDiv(profit, initial_size), Dec(100))
             IN  IF RLt(MinTriangularProfit, profit_percentage)
                 THEN <<[type |-> "triangular",
                         path |-> path,
                         exchanges |-> exchange,
                         start_currency |-> path[1][1],
                         initial_size |-> initial_size,
                         final_size |-> current_size,
                         profit |-> profit,
                         profit_percentage |-> profit_percentage,
                         path_efficiency |->
                             RMul(RDiv(profit_percentage, Dec(Len(path))),
                                  Dec(100))]>>
                 ELSE <<>>

\* for path in paths: for exchange in ISSUERS.keys(): ..., from the n-th
\* (path, exchange) on, in the loops' order.
RECURSIVE TriangularFrom(_, _, _)
TriangularFrom(all, n, max_slippage) ==
    IF n >= Len(Paths) * Len(ISSUERS) THEN <<>>
    ELSE TriangularOpportunity(all, Paths[(n \div Len(ISSUERS)) + 1],
                               ISSUERS[(n % Len(ISSUERS)) + 1][1],
                               max_slippage)
         \o TriangularFrom(all, n + 1, max_slippage)

\* all_rates as monitor_opportunities builds it from the cycle's lookups.
BuildAllRates(res) ==
    LET keys == {<<k, i>> \in PairKeys \X (1..Len(ISSUERS)) : res[k][i] # <<>>}
    IN  [key \in {RateKey(e[1], ExchangeName(ISSUERS[e[2]][2])) : e \in keys}
            |-> LET i == CHOOSE i \in 1..Len(ISSUERS) :
                             ExchangeName(ISSUERS[i][2]) = key[2]
                IN  [rate |-> res[key[1]][i][1].rate,
                     size |-> res[key[1]][i][1].optimal_size]]

\* Quotes a caller may hand over for each leg of the path: a rate and the
\* size on offer. A size of 250 leaves the first leg's slippage under the
\* cap (1000 / 250 * 0.001 = 0.004); a size of 40 puts it at the cap.
LegQuotes ==
    << {[rate |-> Dec(2), size |-> Dec(40)], [rate |-> Dec(2), size |-> Dec(250)],
        [rate |-> Dec(1), size |-> Dec(40)], [rate |-> Dec(1), size |-> Dec(250)]},
       {[rate |-> Rat(1, 2), size |-> Dec(40)], [rate |-> Dec(1), size |-> Dec(40)]},
       {[rate |-> Rat(101, 100), size |-> Dec(40)],
        [rate |-> Rat(11, 10), size |-> Dec(40)],
        [rate |-> Dec(1), size |-> Dec(40)]} >>

\* The lookups of one cycle, kept for the triangular detector.
TriFetch ==
    /\ tri_pc = "idle"
    /\ Len(opportunities) < MaxOpps
    /\ \E book \in [PairKeys -> [1..Len(ISSUERS) -> LookupResults]] :
          all_rates' =
              BuildAllRates([k \in PairKeys |->
                  [i \in 1..Len(ISSUERS) |-> GetPoolRates(book[k][i])]])
    /\ tri_pc' = "fetched"
    /\ UNCHANGED <<tri_found, detVars, logVars, spotVars, flashVars, riskVars, monVars>>

\* all_rates holding, at one exchange, the quote legs[l][1] for the l-th leg
\* of `path` wherever legs[l] is not <<>>.
SuppliedAllRates(path, exchange, legs) ==
    LET quoted == {n \in 1..Len(path) : legs[n] # <<>>}
        legOf(key) == CHOOSE n \in quoted : path[n] = key[1]
    IN  [key \in {RateKey(path[n], exchange) : n \in quoted}
            |-> legs[legOf(key)][1]]

\* A caller hands check_triangular_arbitrage quotes of its own: for one
\* exchange, a quote for each leg of a path or none.
TriSupply ==
    /\ tri_pc = "idle"
    /\ Len(opportunities) < MaxOpps
    /\ \E p \in SuppliedPaths, j \in 1..Len(ISSUERS) :
       \E q1 \in {<<>>} \cup {<<q>> : q \in LegQuotes[1]},
          q2 \in {<<>>} \cup {<<q>> : q \in LegQuotes[2]},
          q3 \in {<<>>} \cup {<<q>> : q \in LegQuotes[3]} :
          all_rates' = SuppliedAllRates(Paths[p], ISSUERS[j][1], <<q1, q2, q3>>)
    /\ tri_pc' = "fetched"
    /\ UNCHANGED <<tri_found, detVars, logVars, spotVars, flashVars, riskVars, monVars>>

\* check_triangular_arbitrage(all_rates) with log_opportunity for each find.
CheckTriangularArbitrage ==
    /\ tri_pc = "fetched"
    /\ tri_found' = TriangularFrom(all_rates, 0, MaxSlippage)
    /\ opportunities' = opportunities \o tri_found'
    /\ tri_pc' = "idle"
    /\ UNCHANGED <<all_rates, det_pc, rates_by_pair, found, logVars, spotVars,
                   flashVars, riskVars, monVars>>

NextTri == TriFetch \/ TriSupply \/ CheckTriangularArbitrage

SpecTri == Init /\ [][NextTri]_vars

(***************************************************************************)
(* ArbitrageTrader.monitor_opportunities: one cycle, lookup by lookup.     *)
(***************************************************************************)
\* CURRENCIES as the source lists them.
AllCurrencies ==
    [FIAT |-> <<"USD", "EUR", "JPY", "GBP">>,
     CRYPTO |-> <<"XRP", "BTC", "ETH", "LTC", "BCH", "XLM">>,
     STABLECOIN |-> <<"USDT", "USDC", "BUSD", "DAI">>]

\* The pair keys _generate_trading_pairs makes out of the lists `cur`.
GeneratedKeys(cur) ==
    {<<base, quote>> :
        base \in SeqToSet(cur.CRYPTO),
        quote \in SeqToSet(cur.FIAT) \cup SeqToSet(cur.CRYPTO)
                  \cup SeqToSet(cur.STABLECOIN)}
    \ {<<c, c>> : c \in SeqToSet(cur.CRYPTO)}

\* The quotes of one base, in the order of the three inner loops.
QuotesOf(base) ==
    CURRENCIES.FIAT \o SelectSeq(CURRENCIES.CRYPTO, LAMBDA q : q # base)
                    \o CURRENCIES.STABLECOIN

\* The pairs of one issuer, from the b-th base on.
RECURSIVE PairsOfIssuerFrom(_, _)
PairsOfIssuerFrom(addr, b) ==
    IF b > Len(CURRENCIES.CRYPTO) THEN <<>>
    ELSE LET base == CURRENCIES.CRYPTO[b]
         IN  [j \in 1..Len(QuotesOf(base)) |->
                 [base |-> base, quote |-> QuotesOf(base)[j], issuer |-> addr]]
             \o PairsOfIssuerFrom(addr, b + 1)

RECURSIVE SelfPairsFrom(_)
SelfPairsFrom(i) ==
    IF i > Len(ISSUERS) THEN <<>>
    ELSE PairsOfIssuerFrom(ISSUERS[i][2], 1) \o SelfPairsFrom(i + 1)

\* self.pairs: the list _generate_trading_pairs returns, issuer by issuer.
SelfPairs == SelfPairsFrom(1)

\* What the ledger may answer to one lookup: no offer or a failed request
\* (<<>>), or a best offer of the quality given; a quality of "0" parses as
\* well as any other.
MonitorBooks == LookupResults \cup {<<Dec(0)>>}

\* Mutant: the collections of the last cycle are kept.
KeptFromLastCycle(prev) == prev

\* rates_by_pair = {} and all_rates = {} at the top of the cycle.
CycleStart(prev) == <<>>

\* Mutant: a lookup without rates ends the loop over self.pairs.
SkipRestOnFailure(n, rates) ==
    IF rates = <<>> THEN Len(SelfPairs) + 1 ELSE n + 1

\* for pair in self.pairs: the pair after the n-th, whatever `rates` was.
NextPair(n, rates) == n + 1

\* rates_by_pair once {"issuer", "rates"} is appended under pair_key.
WithQuote(rbp, pair, rates) ==
    LET entry == [issuer |-> pair.issuer, rates |-> rates]
    IN  IF PairKey(pair) \in DOMAIN rbp
        THEN [rbp EXCEPT ![PairKey(pair)] = Append(@, entry)]
        ELSE [k \in DOMAIN rbp \cup {PairKey(pair)} |->
                 IF k = PairKey(pair) THEN <<entry>> ELSE rbp[k]]

\* all_rates once the quote is stored under f"{pair_key}@{issuer_name}".
WithRate(all, pair, rates) ==
    LET key == RateKey(PairKey(pair), ExchangeName(pair.issuer))
        entry == [rate |-> rates.rate, size |-> rates.optimal_size]
    IN  [k \in DOMAIN all \cup {key} |-> IF k = key THEN entry ELSE all[k]]

\* The division of check_direct_arbitrage raises: a key with two quotes or
\* more has a least rate of zero.
DirectRaises(rbp) ==
    \E k \in DOMAIN rbp :
        /\ Len(rbp[k]) > 1
        /\ BestBuy(rbp[k]).rates.rate[1] = 0

\* while self.is_running: the try is entered and both collections are empty.
MonitorCycleStart ==
    /\ mon_pc = "idle"
    /\ Len(opportunities) < MaxOpps
    /\ rates_by_pair' = CycleStart(rates_by_pair)
    /\ all_rates' = CycleStart(all_rates)
    /\ last_cycle' = lookups
    /\ lookups' = <<>>
    /\ evaluated' = {}
    /\ mon_pc' = "fetching"
    /\ UNCHANGED <<det_pc, found, opportunities, tri_pc, tri_found, logVars,
                   spotVars, flashVars, riskVars>>

\* One turn of the loop over self.pairs: get_pool_rates and, if it returned
\* rates, the two stores.
MonitorLookup ==
    /\ mon_pc = "fetching"
    /\ \E book \in MonitorBooks :
          LET n == Len(lookups) + 1
              pair == SelfPairs[n]
              rates == GetPoolRates(book)
          IN  /\ lookups' = Append(lookups, rates)
              /\ IF rates # <<>>
                 THEN /\ rates_by_pair' = WithQuote(rates_by_pair, pair, rates[1])
                      /\ all_rates' = WithRate(all_rates, pair, rates[1])
                 ELSE UNCHANGED <<rates_by_pair, all_rates>>
              /\ mon_pc' = IF NextPair(n, rates) > Len(SelfPairs)
                           THEN "fetched" ELSE "fetching"
    /\ UNCHANGED <<det_pc, found, opportunities, tri_pc, tri_found, last_cycle,
                   evaluated, logVars, spotVars, flashVars, riskVars>>

\* await self.check_direct_arbitrage(rates_by_pair). Nothing in it catches:
\* if the division raises, the error reaches the except of the monitoring
\* loop, which logs it and sleeps five seconds.
MonitorDirect ==
    /\ mon_pc = "fetched"
    /\ IF DirectRaises(rates_by_pair)
       THEN /\ mon_pc' = "error_sleep"
            /\ UNCHANGED <<found, opportunities, evaluated>>
       ELSE /\ found' = DirectOpportunities(rates_by_pair, DOMAIN rates_by_pair)
            /\ opportunities' = opportunities \o found'
            /\ evaluated' = evaluated \cup {"direct"}
            /\ mon_pc' = "direct_done"
    /\ UNCHANGED <<det_pc, rates_by_pair, tri_pc, all_rates, tri_found,
                   lookups, last_cycle, logVars, spotVars, flashVars, riskVars>>

\* await self.check_triangular_arbitrage(all_rates), then the health check
\* and asyncio.sleep(1).
MonitorTriangular ==
    /\ mon_pc = "direct_done"
    /\ tri_found' = TriangularFrom(all_rates, 0, MaxSlippage)
    /\ opportunities' = opportunities \o tri_found'
    /\ evaluated' = evaluated \cup {"triangular"}
    /\ mon_pc' = "sleeping"
    /\ UNCHANGED <<det_pc, rates_by_pair, found, tri_pc, all_rates, lookups,
                   last_cycle, logVars, spotVars, flashVars, riskVars>>

\* The sleep ends: one second after a clean cycle, five after an error.
MonitorWake ==
    /\ mon_pc \in {"sleeping", "error_sleep"}
    /\ mon_pc' = "idle"
    /\ UNCHANGED <<detVars, triVars, lookups, last_cycle, evaluated, logVars,
                   spotVars, flashVars, riskVars>>

NextMonitor ==
    \/ MonitorCycleStart
    \/ MonitorLookup
    \/ MonitorDirect
    \/ MonitorTriangular
    \/ MonitorWake

SpecMonitor == Init /\ [][NextMonitor]_vars

(***************************************************************************)
(* RiskManagementAgent                                                     *)
(***************************************************************************)
\* The limits set by __init__.
MaxPositionSize == Dec(10000)
MaxDailyLoss == Dec(1000)
RiskMinProfitThreshold == Rat(1, 100)

\* get_market_risk_score: 0.3 + random() * 0.4, a value of [0.3, 0.7).
MarketScores == {Rat(3, 10), Rat(69, 100)}

\* Mutant: the profit score is taken the other way up.
ProfitScoreInverted(expected_profit) ==
    RDiv(expected_profit, RiskMinProfitThreshold)

\* size_score and profit_score
SizeScore(size) == RDiv(size, MaxPositionSize)
ProfitScore(expected_profit) == RDiv(RiskMinProfitThreshold, expected_profit)

\* 0.4 * size_score + 0.3 * profit_score + 0.3 * market_score
WeightedRiskScore(size, expected_profit, market_score) ==
    RAdd(RAdd(RMul(Rat(4, 10), SizeScore(size)),
              RMul(Rat(3, 10), ProfitScore(expected_profit))),
         RMul(Rat(3, 10), market_score))

\* assess_trade_risk(pair, size, expected_profit) with self.daily_pnl = pnl,
\* when get_market_risk_score returns market_score. The checks do not read
\* self.open_positions or self.trade_history, nor the pair.
AssessTradeRisk(size, expected_profit, pnl, market_score) ==
    IF RLt(MaxPositionSize, size)
    THEN [risk_score |-> Dec(1), allowed |-> FALSE,
          reason |-> "Position size exceeds maximum"]
    ELSE IF RLt(RSub(pnl, size), RSub(Dec(0), MaxDailyLoss))
    THEN [risk_score |-> Dec(1), allowed |-> FALSE,
          reason |-> "Would exceed daily loss limit"]
    ELSE IF RLt(expected_profit, RiskMinProfitThreshold)
    THEN [risk_score |-> Rat(9, 10), allowed |-> FALSE,
          reason |-> "Expected profit below threshold"]
    ELSE LET risk_score ==
                 WeightedRiskScore(size, expected_profit, market_score)
         IN  [risk_score |-> risk_score,
              allowed |-> RLt(risk_score, Rat(7, 10)),
              reason |-> "None"]

\* Mutant: the P&L is overwritten, not accumulated.
NewDailyPnlOverwritten(pnl, profit_loss) == profit_loss

\* self.daily_pnl += profit_loss
NewDailyPnl(pnl, profit_loss) == RAdd(pnl, profit_loss)

\* Bounds and inputs of the risk agent's callers.
MaxAssess == 2      \* assess_trade_risk calls kept in `assessments`
MaxHours == 36      \* the ledger's clock stops here
HourStep == 12      \* one step of that clock

RiskPair == "XRP/USD"
AssessSizes == {Dec(100), Dec(10000), Dec(12000)}
ExpectedProfits == {Rat(1, 200), Rat(3, 100), Rat(1, 2)}
UpdateSizes == {Dec(6000)}
ProfitLosses == {Dec(10000), Rat(-100001, 100)}

\* One call of assess_trade_risk, recorded with its arguments, the state of
\* the agent it ran in and its result.
AssessCall ==
    /\ Len(assessments) < MaxAssess
    /\ \E size \in AssessSizes, expected_profit \in ExpectedProfits,
          market_score \in MarketScores :
          assessments' =
              Append(assessments,
                     [pair |-> RiskPair, size |-> size,
                      expected_profit |-> expected_profit,
                      daily_pnl |-> daily_pnl,
                      trades |-> Len(trade_history),
                      result |-> AssessTradeRisk(size, expected_profit,
                                                 daily_pnl, market_score)])
    /\ UNCHANGED <<trade_history, approvals, daily_pnl, upd_pc, upd_args,
                   hours, detVars, logVars, spotVars, flashVars, triVars, monVars>>

\* Task c calls update_position: the coroutine is created and waits for the
\* event loop to run it.
UpdateCall(c) ==
    /\ upd_pc[c] = "idle"
    /\ \E size \in UpdateSizes, profit_loss \in ProfitLosses :
          upd_args' = [upd_args EXCEPT ![c] =
                          <<[pair |-> RiskPair, size |-> size,
                             profit_loss |-> profit_loss]>>]
    /\ upd_pc' = [upd_pc EXCEPT ![c] = "called"]
    /\ UNCHANGED <<trade_history, approvals, daily_pnl, assessments, hours,
                   detVars, logVars, spotVars, flashVars, triVars, monVars>>

\* The event loop runs c's update_position. Its body has no await, so it
\* runs from the first line to the return without any other task in between.
\* The record's timestamp is the literal "now"; `at` keeps the hour of the
\* call for the properties.
UpdatePosition(c) ==
    /\ upd_pc[c] = "called"
    /\ daily_pnl' = NewDailyPnl(daily_pnl, upd_args[c][1].profit_loss)
    /\ trade_history' =
          Append(trade_history,
                 [pair |-> upd_args[c][1].pair, size |-> upd_args[c][1].size,
                  pnl |-> upd_args[c][1].profit_loss, timestamp |-> "now",
                  at |-> hours])
    /\ upd_pc' = [upd_pc EXCEPT ![c] = "done"]
    /\ UNCHANGED <<approvals, assessments, upd_args, hours, detVars, logVars,
                   spotVars, flashVars, triVars, monVars>>

\* Time passes.
HourPass ==
    /\ hours < MaxHours
    /\ hours' = hours + HourStep
    /\ UNCHANGED <<trade_history, approvals, daily_pnl, assessments, upd_pc,
                   upd_args, detVars, logVars, spotVars, flashVars, triVars, monVars>>

\* The risk agent under calls of assess_trade_risk and update_position.
NextRisk ==
    \/ AssessCall
    \/ \E c \in Callers : UpdateCall(c)
    \/ \E c \in Callers : UpdatePosition(c)

SpecRisk == Init /\ [][NextRisk]_vars

\* The ledger under concurrent callers of update_position, over days.
NextLedger ==
    \/ \E c \in Callers : UpdateCall(c)
    \/ \E c \in Callers : UpdatePosition(c)
    \/ HourPass

SpecLedger == Init /\ [][NextLedger]_vars

(***************************************************************************)
(* Properties of the direct detector (SpecDirect).                         *)
(***************************************************************************)
\* The detector has run on the quotes of pair key k, which at least two
\* venues quoted.
Checked(k) ==
    /\ det_pc = "idle"
    /\ k \in DOMAIN rates_by_pair
    /\ Len(rates_by_pair[k]) >= 2

RatesOf(k) == {rates_by_pair[k][i].rates.rate : i \in 1..Len(rates_by_pair[k])}
MinRateOf(k) == CHOOSE r \in RatesOf(k) : \A x \in RatesOf(k) : RLe(r, x)
MaxRateOf(k) == CHOOSE r \in RatesOf(k) : \A x \in RatesOf(k) : RLe(x, r)
FoundFor(k) == {found[i] : i \in {j \in 1..Len(found) : found[j].pair = k}}
\* The quote of the venue named `exchange` among the quotes of pair key k.
QuoteAt(k, exchange) ==
    LET i == CHOOSE i \in 1..Len(rates_by_pair[k]) :
                 ExchangeName(rates_by_pair[k][i].issuer) = exchange
    IN  rates_by_pair[k][i].rates
SpreadPct(k) ==
    RMul(RDiv(RSub(MaxRateOf(k), MinRateOf(k)), MinRateOf(k)), Dec(100))

\* C6: for quotes of one pair from at least two venues whose maximum rate
\* exceeds the minimum rate, the opportunity check_direct_arbitrage reports
\* buys at the minimum rate, sells at the maximum rate, and its profit
\* percentage is exactly (sell.rate - buy.rate) / buy.rate * 100.
C6_ProfitPctExact ==
    \A k \in PairKeys :
        (Checked(k) /\ RLt(MinRateOf(k), MaxRateOf(k))) =>
            \A o \in FoundFor(k) :
                /\ o.buy_rate = MinRateOf(k)
                /\ o.sell_rate = MaxRateOf(k)
                /\ o.profit_percentage = SpreadPct(k)

\* C6 witness: the detector reported an opportunity for a pair whose venues
\* quote different rates, with all three venues quoting.
C6_Witness ==
    \E k \in PairKeys :
        /\ Checked(k)
        /\ Len(rates_by_pair[k]) = Len(ISSUERS)
        /\ RLt(MinRateOf(k), MaxRateOf(k))
        /\ FoundFor(k) # {}

\* C7: every Direct opportunity ever logged has sell_rate > buy_rate, and a
\* pair whose maximum rate is not above its minimum rate yields none.
C7_NoOpportunityWithoutSpread ==
    /\ \A i \in 1..Len(opportunities) :
          RLt(opportunities[i].buy_rate, opportunities[i].sell_rate)
    /\ \A k \in PairKeys :
          (Checked(k) /\ RLe(MaxRateOf(k), MinRateOf(k))) => FoundFor(k) = {}

\* C7 witness: the detector has run on a pair that two or more venues quote
\* at one and the same rate, and logged nothing.
C7_Witness ==
    \E k \in PairKeys :
        /\ Checked(k)
        /\ MaxRateOf(k) = MinRateOf(k)
        /\ found = <<>>

\* C8: every Direct opportunity logged names two different venues.
C8_DistinctVenues ==
    \A i \in 1..Len(opportunities) :
        opportunities[i].buy_exchange # opportunities[i].sell_exchange

\* C8 witness: an opportunity was logged for a pair in which two venues tie
\* on the best buy rate; it buys at the first of them and sells elsewhere.
C8_Witness ==
    \E k \in PairKeys :
        /\ Checked(k)
        /\ Len(rates_by_pair[k]) = Len(ISSUERS)
        /\ rates_by_pair[k][1].rates.rate = rates_by_pair[k][2].rates.rate
        /\ \E o \in FoundFor(k) :
              /\ o.buy_exchange = ExchangeName(rates_by_pair[k][1].issuer)
              /\ o.sell_exchange = ExchangeName(rates_by_pair[k][3].issuer)

\* C9: the size of every Direct opportunity is min(buy.size, sell.size) of
\* the two quotes it is built from, and its profit is
\* (sell.rate - buy.rate) * size.
C9_SizeIsMinOfQuotes ==
    det_pc = "idle" =>
        \A i \in 1..Len(found) :
            LET o == found[i]
                buy == QuoteAt(o.pair, o.buy_exchange)
                sell == QuoteAt(o.pair, o.sell_exchange)
                size == RMin(buy.optimal_size, sell.optimal_size)
            IN  /\ o.size = size
                /\ o.profit = RMul(RSub(sell.rate, buy.rate), size)

\* C10: a Direct opportunity is emitted for a pair if and only if its profit
\* percentage, in percent, strictly exceeds 0.08.
C10_EmittedIffAboveThreshold ==
    \A k \in PairKeys :
        Checked(k) => (FoundFor(k) # {} <=> RLt(Rat(8, 100), SpreadPct(k)))

(***************************************************************************)
(* Properties of the executing agents (Spec).                              *)
(***************************************************************************)
\* Executions of log line i in flight: only the spot agent's call of
\* execute_trade suspends; the flash agent's call returns before any await.
InFlight(i) == IF spot_pc = "executing" /\ spot_opp = i THEN 1 ELSE 0

C2_ExecutionOnlyAfterApproval ==
    spot_pc = "executing" => spot_opp \in approvals

\* C3: an opportunity whose timestamp is older than the staleness window is
\* never executed by the spot agent.
C3_StaleNeverExecuted ==
    spot_pc = "executing" => spot_age <= StalenessWindow

\* C4: once a polling cycle of an agent has attempted to execute a line of
\* the log, no later cycle of that agent attempts the same line again (a
\* cycle attempts a line at most once, so each count stays at most 1).
C4_NoReuseAcrossCycles ==
    \A i \in 1..Len(oppLog) :
        /\ spot_executions[i] <= 1
        /\ flash_attempts[i] <= 1

\* C5: the update_position calls made so far are as many as the executions
\* that ended in success.
C5_PositionUpdatedOncePerSuccess ==
    Len(trade_history) = successful_trades + loans_executed

(***************************************************************************)
(* Properties of the triangular detector (SpecTri).                        *)
(***************************************************************************)
\* The quote of leg n of opportunity o, as all_rates held it.
LegQuote(o, n) == all_rates[RateKey(o.path[n], o.exchanges)]

\* One leg of the round trip as the specification words it.
AfterLeg(size, quote, max_slippage) ==
    LET slippage ==
            IF RLt(RDiv(RMul(size, Rat(1, 1000)), quote.size), max_slippage)
            THEN RDiv(RMul(size, Rat(1, 1000)), quote.size)
            ELSE max_slippage
    IN  RSub(RMul(size, quote.rate), RMul(RMul(size, quote.rate), slippage))

\* The three legs in order, from a start size of 1000.
RoundTrip(q1, q2, q3, max_slippage) ==
    AfterLeg(AfterLeg(AfterLeg(Dec(1000), q1, max_slippage), q2, max_slippage),
             q3, max_slippage)

\* Quotes with the rates 2.0, 0.5 and 1.01 and the sizes z1, z2, z3.
ExampleQuotes(z1, z2, z3) ==
    <<[rate |-> Dec(2), size |-> z1], [rate |-> Rat(1, 2), size |-> z2],
      [rate |-> Rat(101, 100), size |-> z3]>>

ExampleSizes == {Dec(40), Dec(250)} \X {Dec(40)} \X {Dec(40)}

\* C11: every triangular opportunity the detector logs starts from 1000 and
\* has the final size obtained by applying to each leg in order the slippage
\* min(max_slippage, current / leg size * 0.001) and the factor
\* rate * (1 - slippage); its profit is final - 1000 and its percentage
\* profit / 1000 * 100. With no slippage the rates 2.0, 0.5, 1.01 give 1010,
\* profit 10 and 1.0 percent; with the detector's slippage they give less.
C11_TriangularRoundTrip ==
    /\ \A i \in 1..Len(tri_found) :
          LET o == tri_found[i]
              final == RoundTrip(LegQuote(o, 1), LegQuote(o, 2), LegQuote(o, 3),
                                 Rat(5, 1000))
          IN  /\ o.initial_size = Dec(1000)
              /\ o.final_size = final
              /\ o.profit = RSub(final, Dec(1000))
              /\ o.profit_percentage =
                    RMul(RDiv(RSub(final, Dec(1000)), Dec(1000)), Dec(100))
    /\ \A z \in ExampleSizes :
          /\ SimulateTrades(ExampleQuotes(z[1], z[2], z[3]), InitialSize, Dec(0))
                = Dec(1010)
          /\ RLt(SimulateTrades(ExampleQuotes(z[1], z[2], z[3]), InitialSize,
                                MaxSlippage),
                 Dec(1010))

\* A logged round trip whose first leg's slippage stayed under the cap and
\* whose later legs were charged the cap.
C11_Witness ==
    /\ tri_pc = "idle"
    /\ \E i \in 1..Len(tri_found) :
          /\ LegQuote(tri_found[i], 1).size = Dec(250)
          /\ LegQuote(tri_found[i], 2).size = Dec(40)
          /\ RLt(Dec(1000), tri_found[i].final_size)

(***************************************************************************)
(* Properties of the risk agent (SpecRisk, SpecLedger).                    *)
(***************************************************************************)
\* The sum of the sizes that the first n records of trade_history hold for
\* `pair`: the open position of the pair as update_position was told it.
RECURSIVE PositionOf(_, _)
PositionOf(pair, n) ==
    IF n = 0 THEN Dec(0)
    ELSE IF trade_history[n].pair = pair
         THEN RAdd(PositionOf(pair, n - 1), trade_history[n].size)
         ELSE PositionOf(pair, n - 1)

\* The sum of the pnl of the first n records of trade_history.
RECURSIVE PnlOf(_)
PnlOf(n) ==
    IF n = 0 THEN Dec(0) ELSE RAdd(PnlOf(n - 1), trade_history[n].pnl)

PositionRejected(a) ==
    ~a.result.allowed /\ a.result.reason = "Position size exceeds maximum"
DailyLossRejected(a) ==
    ~a.result.allowed /\ a.result.reason = "Would exceed daily loss limit"
ProfitRejected(a) ==
    ~a.result.allowed /\ a.result.reason = "Expected profit below threshold"

\* C12: a trade is rejected for the position limit exactly when the open
\* position of its pair plus its size is above max_position_size.
C12_PositionLimit ==
    \A i \in 1..Len(assessments) :
        LET a == assessments[i]
        IN  PositionRejected(a)
              <=> RLt(Dec(10000), RAdd(PositionOf(a.pair, a.trades), a.size))

\* C13: a trade that passes the position check is rejected for the daily
\* loss exactly when the accumulated daily P&L is below -max_daily_loss,
\* whatever its size and expected profit.
C13_DailyLossCircuitBreaker ==
    \A i \in 1..Len(assessments) :
        LET a == assessments[i]
        IN  ~PositionRejected(a)
              => (DailyLossRejected(a) <=> RLt(a.daily_pnl, Dec(-1000)))

\* C14: a trade that passes the position and daily-loss checks is rejected
\* for insufficient profit exactly when expected_profit / size is below
\* min_profit_threshold.
C14_ProfitPerUnitThreshold ==
    \A i \in 1..Len(assessments) :
        LET a == assessments[i]
        IN  (~PositionRejected(a) /\ ~DailyLossRejected(a))
              => (ProfitRejected(a)
                    <=> RLt(RDiv(a.expected_profit, a.size), Rat(1, 100)))

\* Two assessments made in the same agent state.
SameState(a, b) == a.daily_pnl = b.daily_pnl /\ a.trades = b.trades

\* C15: between two assessments that differ in one input only, the score
\* does not go down with a larger size, does not go up with a larger
\* expected profit and does not go down with a larger accumulated loss.
C15_ScoreMonotone ==
    \A i, j \in 1..Len(assessments) :
        LET a == assessments[i]
            b == assessments[j]
        IN  /\ (SameState(a, b) /\ a.expected_profit = b.expected_profit
                  /\ RLe(a.size, b.size))
                 => RLe(a.result.risk_score, b.result.risk_score)
            /\ (SameState(a, b) /\ a.size = b.size
                  /\ RLe(a.expected_profit, b.expected_profit))
                 => RLe(b.result.risk_score, a.result.risk_score)
            /\ (a.trades = b.trades /\ a.size = b.size
                  /\ a.expected_profit = b.expected_profit
                  /\ RLe(b.daily_pnl, a.daily_pnl))
                 => RLe(a.result.risk_score, b.result.risk_score)

\* C16: two assessments with equal arguments made in equal agent state have
\* the same risk score and the same decision.
C16_AssessmentIsPure ==
    \A i, j \in 1..Len(assessments) :
        LET a == assessments[i]
            b == assessments[j]
        IN  (SameState(a, b) /\ a.pair = b.pair /\ a.size = b.size
               /\ a.expected_profit = b.expected_profit)
              => /\ a.result.risk_score = b.result.risk_score
                 /\ a.result.allowed = b.result.allowed

\* C17: every assessment, approved or rejected, has a score of [0, 1], and
\* an approved one has a score below 0.7.
C17_ScoreInUnitInterval ==
    \A i \in 1..Len(assessments) :
        LET a == assessments[i]
        IN  /\ RLe(Dec(0), a.result.risk_score)
            /\ RLe(a.result.risk_score, Dec(1))
            /\ a.result.allowed => RLt(a.result.risk_score, Rat(7, 10))

\* A scored assessment that was approved and a scored one that was not.
C17_Witness ==
    /\ \E i \in 1..Len(assessments) :
          assessments[i].result.allowed /\ assessments[i].size = Dec(10000)
    /\ \E i \in 1..Len(assessments) :
          /\ ~assessments[i].result.allowed
          /\ assessments[i].result.reason = "None"

\* The sum of the profit_loss arguments of the calls of `cs` (all completed).
RECURSIVE SumOfCalls(_)
SumOfCalls(cs) ==
    IF cs = {} THEN Dec(0)
    ELSE LET c == CHOOSE c \in cs : TRUE
         IN  RAdd(upd_args[c][1].profit_loss, SumOfCalls(cs \ {c}))

CompletedCalls == {c \in Callers : upd_pc[c] = "done"}

\* C18: whatever the order in which the event loop ran the update_position
\* calls, daily_pnl is the initial 0 plus the profit_loss of every completed
\* call, trade_history has one record per completed call, and daily_pnl is
\* the sum of the pnl recorded in trade_history.
C18_UpdatesLinearized ==
    /\ daily_pnl = SumOfCalls(CompletedCalls)
    /\ Len(trade_history) = Cardinality(CompletedCalls)
    /\ daily_pnl = PnlOf(Len(trade_history))

\* Two calls were pending together and both have completed, the second
\* caller's first.
C18_Witness ==
    /\ CompletedCalls = Callers
    /\ trade_history[1].pnl = upd_args["t2"][1].profit_loss
    /\ trade_history[2].pnl = upd_args["t1"][1].profit_loss
    /\ trade_history[1].pnl # trade_history[2].pnl
    /\ trade_history[1].at = trade_history[2].at

\* C19: when the latest update came more than 24 h after the ledger's start
\* and after every earlier update, it began a new trading day, so daily_pnl
\* is that update's profit_loss alone.
C19_DailyReset ==
    LET n == Len(trade_history)
    IN  (/\ n >= 1
         /\ trade_history[n].at > 24
         /\ \A m \in 1..(n - 1) : trade_history[n].at - trade_history[m].at > 24)
           => daily_pnl = trade_history[n].pnl

\* C20: once find_paths has returned no path, the running call of
\* execute_trade_with_retry makes no further attempt.
C20_NoPathFailsAtOnce ==
    ~(spot_pc = "executing" /\ last_error = NoPathsError
        /\ amm_attempts < MaxAttempts)

(***************************************************************************)
(* Properties of execute_trade_with_retry and the spot agent (SpecSpot).   *)
(***************************************************************************)
\* C21: no call of execute_trade_with_retry returns the failure of a
\* transient fault while attempts remain. (validate_issuer runs only inside
\* the loop, so its fault always comes with attempts remaining.)
C21_TransientFaultRetried ==
    amm_result = <<>> \/ amm_result[1].error # <<IssuerFaultError>>

\* C22: a call never makes more than max_attempts attempts nor submits more
\* than max_attempts payments, and every call returns.
C22_BoundedAttempts ==
    /\ [](amm_attempts <= MaxAttempts /\ amm_payments <= MaxAttempts)
    /\ (spot_pc = "executing") ~> (spot_pc = "sleeping")

\* A call with three payments behind it, none validated.
C22_Witness ==
    spot_pc = "executing" /\ amm_attempts = 3 /\ amm_payments = 3

\* The errors a failed attempt leaves in last_error.
AttemptErrors == {NoPathsError, "submit fault", "Transaction not validated"}

C26_ReportedPaymentIsTerminal ==
    [][last_error = "Transaction not validated"
         => amm_payments' <= amm_payments]_vars

\* The line monitor_opportunities reads, and the test it makes on it for the
\* ledger answers `ledger`: the analysis is not empty, the blend of the two
\* scores is at least 0.6 and the expected value is positive.
PassesTest(ledger) ==
    /\ oppLog # <<>>
    /\ oppLog[Len(oppLog)].json_ok
    /\ LET opportunity == oppLog[Len(oppLog)]
           analysis == AnalyzeOpportunity(opportunity, ledger)
       IN  /\ Len(analysis) = 1
           /\ RLe(Rat(3, 5),
                  RAdd(RMul(Rat(7, 10), CalculateRiskScore(opportunity, now)),
                       RMul(Rat(3, 10), analysis[1].execution_probability)))
           /\ RLt(Dec(0), analysis[1].expected_value)

SuccessRate ==
    IF total_trades > 0 THEN Rat(successful_trades, total_trades) ELSE Dec(0)

\* C30: total_trades equals successful_trades, and the reported success rate
\* is 0 until a trade has succeeded and 1 from then on.
C30_SuccessRateIsZeroOrOne ==
    /\ total_trades = successful_trades
    /\ SuccessRate = IF successful_trades = 0 THEN Dec(0) ELSE Dec(1)

\* A success and a failure have both been counted.
C30_Witness ==
    successful_trades >= 1 /\ failed_trades >= 1

\* The states of a monitoring cycle in which the loop over self.pairs is over.
LookupsOver == mon_pc \in {"fetched", "direct_done", "sleeping", "error_sleep"}

\* The quote of the n-th pair of self.pairs is in rates_by_pair / all_rates.
InRatesByPair(n) ==
    /\ PairKey(SelfPairs[n]) \in DOMAIN rates_by_pair
    /\ \E i \in 1..Len(rates_by_pair[PairKey(SelfPairs[n])]) :
          rates_by_pair[PairKey(SelfPairs[n])][i].issuer = SelfPairs[n].issuer
InAllRates(n) ==
    RateKey(PairKey(SelfPairs[n]), ExchangeName(SelfPairs[n].issuer))
        \in DOMAIN all_rates

\* C24: in a monitoring cycle a failed or empty lookup for one (pair, venue)
\* does not fail the batch: every pair of self.pairs is looked up, the quote
\* of a pair is absent from rates_by_pair and from all_rates exactly when its
\* lookup returned nothing, and detection runs on what is there.
C24_FailedLookupOnlyDropsItsQuote ==
    LookupsOver =>
        /\ Len(lookups) = Len(SelfPairs)
        /\ \A n \in 1..Len(lookups) :
              IF lookups[n] = <<>>
              THEN ~InRatesByPair(n) /\ ~InAllRates(n)
              ELSE InRatesByPair(n) /\ InAllRates(n)
        /\ mon_pc = "sleeping" => evaluated = {"direct", "triangular"}

\* One venue's lookup failed and direct detection still found an opportunity
\* between the two others.
C24_Witness ==
    /\ mon_pc = "sleeping"
    /\ \E n \in 1..Len(lookups) : lookups[n] = <<>>
    /\ found # <<>>

\* C25: an error raised while evaluating one pair in direct detection or one
\* cycle in triangular detection is recovered locally: when the monitoring
\* cycle goes to sleep, both detectors have run to their end.
C25_DetectionErrorRecoveredLocally ==
    mon_pc \in {"sleeping", "error_sleep"} =>
        evaluated = {"direct", "triangular"}

\* The cycle's lookups as BuildRatesByPair and BuildAllRates take them: by
\* pair key and venue.
LookupsByKey(lk) ==
    [k \in PairKeys |->
        [i \in 1..Len(ISSUERS) |->
            lk[CHOOSE n \in 1..Len(SelfPairs) :
                  /\ PairKey(SelfPairs[n]) = k
                  /\ SelfPairs[n].issuer = ISSUERS[i][2]]]]

\* C27: within one monitoring cycle all lookups complete before detection
\* starts, and rates_by_pair and all_rates hold the quotes of this cycle's
\* lookups and nothing else: the detectors' results are those of this
\* cycle's quotes.
C27_DetectionUsesThisCycleOnly ==
    /\ mon_pc = "fetching" => evaluated = {}
    /\ LookupsOver =>
          /\ Len(lookups) = Len(SelfPairs)
          /\ rates_by_pair = BuildRatesByPair(LookupsByKey(lookups))
          /\ all_rates = BuildAllRates(LookupsByKey(lookups))
          /\ mon_pc \in {"direct_done", "sleeping"} =>
                found = DirectOpportunities(
                            BuildRatesByPair(LookupsByKey(lookups)),
                            DOMAIN BuildRatesByPair(LookupsByKey(lookups)))
          /\ mon_pc = "sleeping" =>
                tri_found = TriangularFrom(
                                BuildAllRates(LookupsByKey(lookups)), 0,
                                MaxSlippage)

\* A later cycle whose lookup for a pair failed where the cycle before had a
\* quote for it: both detectors ran and the old quote is gone.
C27_Witness ==
    /\ mon_pc = "sleeping"
    /\ \E n \in 1..Len(last_cycle) :
          /\ last_cycle[n] # <<>>
          /\ lookups[n] = <<>>
          /\ ~InAllRates(n)

\* C29: monitor_opportunities never emits a triangular opportunity: every
\* cycle of the catalog has a leg that _generate_trading_pairs does not
\* generate, its base being no crypto currency, so the triangular detector
\* logs nothing and every logged opportunity is a direct one.
C29_NoTriangularFromMonitor ==
    /\ \A p \in 1..Len(Paths) :
          \E l \in 1..Len(Paths[p]) :
              /\ Paths[p][l][1] \notin SeqToSet(AllCurrencies.CRYPTO)
              /\ Paths[p][l] \notin GeneratedKeys(AllCurrencies)
    /\ tri_found = <<>>
    /\ \A i \in 1..Len(opportunities) : opportunities[i].type = "direct"

\* The triangular detector ran over the quotes of all three venues, which
\* held a direct opportunity.
C29_Witness ==
    /\ mon_pc = "sleeping"
    /\ "triangular" \in evaluated
    /\ \A n \in 1..Len(SelfPairs) : InAllRates(n)
    /\ opportunities # <<>>

====
